---- MODULE Spec2Model ----
(***************************************************************************)
(* A model of the native shim of neon-runtime (crates/neon-runtime/src/    *)
(* neon.cc): the scope and handle lifetime system, persistent handles,     *)
(* the cross-thread task bridge, the class registry and the operations     *)
(* that report their outcome through a returned flag.                      *)
(*                                                                         *)
(* The host's handle machinery is modelled the way the host implements it: *)
(* a handle stack of cells, a scope that remembers the height of that      *)
(* stack at entry (prev_next) and cuts the stack back to it at exit, an    *)
(* escapable scope that owns one extra cell allocated below its own region *)
(* (its escape slot), and persistent handles that point at global cells.   *)
(* A Local handle is the identity of the cell it points at; cell ids are   *)
(* never reused, so a stale Local is recognisable.                         *)
(*                                                                         *)
(* neon_task.h (neon::Task, neon::queue_task) is not part of the sources;  *)
(* the bridge behind Neon_Task_Schedule is modelled from the design        *)
(* document, section 4.3.                                                  *)
(***************************************************************************)
EXTENDS Integers, Sequences, FiniteSets, TLC

\* ------------------------------------------------------------------ bounds
MaxHandles == 3      \* handle cells ever allocated
MaxScopes == 2       \* scopes ever entered above the host's own
MaxObjects == 2      \* host objects ever created
MaxGlobals == 2      \* global cells ever allocated
NumPersistents == 2  \* persistent handle slots owned by native code
NumTasks == 2        \* tasks ever scheduled
NumWorkers == 2      \* worker threads of the pool
MaxClasses == 1      \* classes ever registered
MaxMaps == 2         \* class maps ever stored

Hole == 0            \* the_hole: the content of an unused escape slot
Host == 0            \* the host's single event-loop thread
Workers == 1..NumWorkers
Persistents == 1..NumPersistents
Tasks == 1..NumTasks
CallbackP == 1       \* the persistent that holds the shared target callback
Names == {"a"}       \* names given to classes and methods

VARIABLES
  hstack,       \* the handle stack: cells [id, ref], oldest first
  scopes,       \* the scope stack: [uid, kind, via, prev_next, escape_slot, parent_scope]
  handleInfo,   \* every handle ever allocated: [scope, ref] by cell id
  exited,       \* uids of the scopes that have exited
  escapes,      \* every escape performed: [from, out, scope, parent, supplied, ref]
  nscopes,      \* scopes entered so far
  heap,         \* host objects created so far (identities 1..heap)
  pstate,       \* persistent slot: "unborn", "live", "dead" (destructor ran)
  pval,         \* persistent slot's val_: a global cell index, 0 when empty
  globals,      \* global cells: [ref, disposed (times DisposeGlobal ran)]
  lastReset,    \* per persistent: the host value given to its last reset
  crashed,      \* the process aborted (a fatal host API check)
  lastOp,       \* the last operation: [op, thread, arg, out]
  tasks,        \* per task: its record (see NoTask)
  doneQueue,    \* tasks whose perform finished, in finishing order
  hostPc,       \* what the host thread is doing: <<"idle">> or <<step, t>>
  loopRefs,     \* active requests keeping the event loop alive
  hostAlive,    \* the host event loop has not exited
  received,     \* results the target callback received, in order
  hostExceptions, \* host-visible exceptions raised, in order
  classes,      \* class metadata made by Neon_Class_CreateBase, oldest first
  lastCall,     \* the last invocation of a class constructor function
  holders,      \* class map holders: [map, dropped (times the drop callback ran)]
  isoSlot,      \* the isolate's data slot: a holder index, 0 when never set
  atExit,       \* holders registered with node::AtExit, in registration order
  isoAlive      \* the host runtime instance has not shut down

memVars == <<hstack, scopes, handleInfo, exited, escapes, nscopes, heap>>
perVars == <<pstate, pval, globals, lastReset>>
taskVars == <<tasks, doneQueue, hostPc, loopRefs, hostAlive, received, hostExceptions>>
clsVars == <<classes, lastCall, holders, isoSlot, atExit, isoAlive>>
vars == <<memVars, perVars, taskVars, clsVars, crashed, lastOp>>

\* ------------------------------------------------------------- handles
Top == scopes[Len(scopes)]
CellIds == {hstack[i].id : i \in 1..Len(hstack)}
Valid(h) == h \in CellIds
CellIndex(h) == CHOOSE i \in 1..Len(hstack) : hstack[i].id = h
Ref(h) == hstack[CellIndex(h)].ref
\* A handle native code can hold and pass: a live cell that is not an unused escape slot.
Usable(h) == Valid(h) /\ Ref(h) # Hole
LiveScopes == {scopes[i].uid : i \in 1..Len(scopes)}
NextHandle == Len(handleInfo) + 1

\* An operation as its caller saw it: ret is the success flag returned ("void" for
\* a function that returns none), wrote whether the out-parameter was written.
OpRet(op, arg, out, ret, wrote) ==
  [op |-> op, thread |-> Host, arg |-> arg, out |-> out, ret |-> ret, wrote |-> wrote]
Op(op, arg, out) == OpRet(op, arg, out, "void", out # 0)

\* HandleScope::CreateHandle: a new cell on top of the handle stack, owned by the
\* innermost open scope.
CreateHandle(ref) ==
  /\ hstack' = Append(hstack, [id |-> NextHandle, ref |-> ref])
  /\ handleInfo' = Append(handleInfo, [scope |-> Top.uid, ref |-> ref])

\* HandleScope::HandleScope: remember the height of the handle stack. parent_scope is
\* the scope pointer the caller handed to Neon_Scope_Chained, -1 where none is passed.
OpenScope(kind, via, slot, stack, parent_scope) ==
  /\ scopes' = Append(scopes, [uid |-> nscopes + 1, kind |-> kind, via |-> via,
                               prev_next |-> Len(stack), escape_slot |-> slot,
                               parent_scope |-> parent_scope])
  /\ nscopes' = nscopes + 1

\* HandleScope::~HandleScope: cut the handle stack back to its height at entry.
CutBack(stack, scope) == SubSeq(stack, 1, scope.prev_next)
CloseScopeMissingCut(stack) == stack
CloseScope(stack) == CutBack(stack, Top)

\* The scope object is gone: the scope below it is the current one again.
PopScopeLeaks(s) == s
PopScope(s) == SubSeq(s, 1, Len(s) - 1)

\* Nan::HandleScope scope / Nan::EscapableHandleScope scope as a local variable of a
\* shim function: a scope of the function's own, opened over the handle stack
\* `stack`. Native code never sees it; it is identified by the next free cell.
InnerScope(kind, slot, stack) ==
  [uid |-> 0 - NextHandle, kind |-> kind, via |-> "shim", prev_next |-> Len(stack),
   escape_slot |-> slot, parent_scope |-> -1]

\* A cell made inside a shim function's own scope: the n-th above the next free one.
Temp(stack, n, ref) == Append(stack, [id |-> NextHandle + n, ref |-> ref])

\* return, from any return statement of a function whose own scope is `scope` and
\* whose body left the handle stack `stack`: the scope object is destroyed.
ReturnFrom(scope, stack) ==
  /\ hstack' = CutBack(stack, scope)
  /\ scopes' = PopScope(Append(scopes, scope))
  /\ exited' = exited \cup {scope.uid}

\* new neon::Task(isolate, task, perform, complete, callback): the record of one
\* unit of work. input is the native input, panics whether its complete panics;
\* finishedAt and completedAt number the ends of perform and the runs of complete.
NewTask(input, panics, callback) ==
  [state |-> "Created", trace |-> <<"Created">>, input |-> input, panics |-> panics,
   callback |-> callback, result |-> -1, worker |-> 0, performed |-> FALSE,
   invalidated |-> FALSE, completions |-> 0, completeThread |-> Host,
   completeScope |-> -1, released |-> 0, finishedAt |-> 0, completedAt |-> 0]

\* No class constructor function has been invoked.
NoCall == [class |-> 0, isConstruct |-> FALSE, ran |-> <<>>, thrown |-> <<>>]

\* The class registry of a fresh host runtime instance: no class, no class map.
ClassInit ==
  /\ classes = <<>>
  /\ lastCall = NoCall
  /\ holders = <<>>
  /\ isoSlot = 0
  /\ atExit = <<>>
  /\ isoAlive = TRUE

\* A task that has not been scheduled.
NoTask == [NewTask(0, FALSE, 0) EXCEPT !.state = "none", !.trace = <<>>]

Init ==
  /\ hstack = <<>>
  /\ scopes = <<[uid |-> 0, kind |-> "plain", via |-> "host", prev_next |-> 0, escape_slot |-> 0,
              parent_scope |-> -1]>>
  /\ handleInfo = <<>>
  /\ exited = {}
  /\ escapes = {}
  /\ nscopes = 0
  /\ heap = 0
  /\ pstate = [p \in Persistents |-> "unborn"]
  /\ pval = [p \in Persistents |-> 0]
  /\ globals = <<>>
  /\ lastReset = [p \in Persistents |-> 0]
  /\ crashed = FALSE
  /\ lastOp = Op("init", 0, 0)
  /\ tasks = [t \in Tasks |-> NoTask]
  /\ doneQueue = <<>>
  /\ hostPc = <<"idle">>
  /\ loopRefs = 0
  /\ hostAlive = TRUE
  /\ received = <<>>
  /\ hostExceptions = <<>>
  /\ ClassInit

\* ------------------------------------------------------------- scopes
\* *out = Nan::New<v8::Object>(): a new host object and a handle to it.
Neon_Object_New ==
  /\ ~crashed
  /\ NextHandle <= MaxHandles
  /\ heap < MaxObjects
  /\ heap' = heap + 1
  /\ CreateHandle(heap + 1)
  /\ lastOp' = Op("alloc_handle", 0, NextHandle)
  /\ UNCHANGED <<scopes, exited, escapes, nscopes, perVars, taskVars, crashed>>
  /\ UNCHANGED clsVars

Neon_Scope_Enter ==
  /\ ~crashed
  /\ nscopes < MaxScopes
  /\ OpenScope("plain", "enter", 0, hstack, -1)
  /\ lastOp' = Op("scope_enter", nscopes + 1, 0)
  /\ UNCHANGED <<hstack, handleInfo, exited, escapes, heap, perVars, taskVars, crashed>>
  /\ UNCHANGED clsVars

\* The scope object must be the innermost one entered by Neon_Scope_Enter: scopes
\* are exited in the reverse of the order they were entered.
Neon_Scope_Exit ==
  /\ ~crashed
  /\ Top.via = "enter" /\ Top.kind = "plain"
  /\ hstack' = CloseScope(hstack)
  /\ scopes' = PopScope(scopes)
  /\ exited' = exited \cup {Top.uid}
  /\ lastOp' = Op("scope_exit", Top.uid, 0)
  /\ UNCHANGED <<handleInfo, escapes, nscopes, heap, perVars, taskVars, crashed>>
  /\ UNCHANGED clsVars

\* EscapableHandleScope::EscapableHandleScope: the escape slot is created first, in
\* the region of the scope that is current at entry, and holds the_hole.
OpenEscapableSlotInside(via, parent_scope) ==
  /\ nscopes < MaxScopes
  /\ NextHandle <= MaxHandles
  /\ hstack' = Append(hstack, [id |-> NextHandle, ref |-> Hole])
  /\ handleInfo' = Append(handleInfo, [scope |-> nscopes + 1, ref |-> Hole])
  /\ OpenScope("escapable", via, NextHandle, hstack, parent_scope)

OpenEscapable(via, parent_scope) ==
  /\ nscopes < MaxScopes
  /\ NextHandle <= MaxHandles
  /\ CreateHandle(Hole)
  /\ OpenScope("escapable", via, NextHandle, hstack', parent_scope)

Neon_Scope_Enter_Escapable ==
  /\ ~crashed
  /\ OpenEscapable("enter", -1)
  /\ lastOp' = Op("scope_enter", nscopes + 1, 0)
  /\ UNCHANGED <<exited, escapes, heap, perVars, taskVars, crashed>>
  /\ UNCHANGED clsVars

Neon_Scope_Exit_Escapable ==
  /\ ~crashed
  /\ Top.via = "enter" /\ Top.kind = "escapable"
  /\ hstack' = CloseScope(hstack)
  /\ scopes' = PopScope(scopes)
  /\ exited' = exited \cup {Top.uid}
  /\ lastOp' = Op("scope_exit", Top.uid, 0)
  /\ UNCHANGED <<handleInfo, escapes, nscopes, heap, perVars, taskVars, crashed>>
  /\ UNCHANGED clsVars

\* Nan::HandleScope v8_scope; callback(out, realm, closure): the scope is open while
\* the callback runs ...
Neon_Scope_Nested_Call ==
  /\ ~crashed
  /\ nscopes < MaxScopes
  /\ OpenScope("plain", "nested", 0, hstack, -1)
  /\ lastOp' = Op("scope_enter", nscopes + 1, 0)
  /\ UNCHANGED <<hstack, handleInfo, exited, escapes, heap, perVars, taskVars, crashed>>
  /\ UNCHANGED clsVars

\* ... and is closed when the callback returns (the C++ object leaves its block).
Neon_Scope_Nested_Return ==
  /\ ~crashed
  /\ Top.via = "nested"
  /\ hstack' = CloseScope(hstack)
  /\ scopes' = PopScope(scopes)
  /\ exited' = exited \cup {Top.uid}
  /\ lastOp' = Op("scope_exit", Top.uid, 0)
  /\ UNCHANGED <<handleInfo, escapes, nscopes, heap, perVars, taskVars, crashed>>
  /\ UNCHANGED clsVars

\* Nan::EscapableHandleScope v8_scope; callback(out, parent_scope, &v8_scope, closure).
\* parent_scope is the scope the caller is in, the innermost open one: a caller can
\* allocate, and so chain, only in the scope that is current.
Neon_Scope_Chained_Call(parent_scope) ==
  /\ ~crashed
  /\ parent_scope = Top.uid
  /\ OpenEscapable("chained", parent_scope)
  /\ lastOp' = Op("scope_enter", nscopes + 1, 0)
  /\ UNCHANGED <<exited, escapes, heap, perVars, taskVars, crashed>>
  /\ UNCHANGED clsVars

Neon_Scope_Chained_Return ==
  /\ ~crashed
  /\ Top.via = "chained"
  /\ hstack' = CloseScope(hstack)
  /\ scopes' = PopScope(scopes)
  /\ exited' = exited \cup {Top.uid}
  /\ lastOp' = Op("scope_exit", Top.uid, 0)
  /\ UNCHANGED <<handleInfo, escapes, nscopes, heap, perVars, taskVars, crashed>>
  /\ UNCHANGED clsVars

\* EscapableHandleScope::Escape: the value is copied into the scope's escape slot and
\* the slot is the handle returned; a slot that is already filled is a fatal API
\* failure ("Escape value set twice").
EscapeSlotNeverFilled(slot) == FALSE
EscapeSlotFilled(slot) == Ref(slot) # Hole

EscapeDropsValue(stack, slot, value) == stack
EscapeInto(stack, slot, value) ==
  [i \in 1..Len(stack) |-> IF stack[i].id = slot THEN [stack[i] EXCEPT !.ref = value] ELSE stack[i]]

\* *out = scope->Escape(value), for any open escapable scope and any handle in use.
Neon_Scope_Escape(i, h) ==
  /\ ~crashed
  /\ i \in 2..Len(scopes)
  /\ scopes[i].kind = "escapable"
  /\ Usable(h)
  /\ IF EscapeSlotFilled(scopes[i].escape_slot)
       THEN /\ crashed' = TRUE
            /\ lastOp' = Op("escape", h, 0)
            /\ UNCHANGED <<hstack, escapes>>
       ELSE /\ hstack' = EscapeInto(hstack, scopes[i].escape_slot, Ref(h))
            /\ escapes' = escapes \cup {[from |-> h, out |-> scopes[i].escape_slot,
                                         scope |-> scopes[i].uid,
                                         parent |-> scopes[i - 1].uid,
                                         supplied |-> scopes[i].parent_scope, ref |-> Ref(h)]}
            /\ lastOp' = Op("escape", h, scopes[i].escape_slot)
            /\ UNCHANGED crashed
  /\ UNCHANGED <<scopes, handleInfo, exited, nscopes, heap, perVars, taskVars>>
  /\ UNCHANGED clsVars

\* Neon_Object_Get_String: an escapable scope around the key and the property read.
\* Its escape slot is created on entry, in the caller's region; the key and the
\* result are cells of the inner region, which the caller never sees and which are
\* cut away when the scope closes, on each of the three return paths.
\* ok = 0: the key cannot be made; 1: the property read fails; 2: success, and the
\* result v is escaped into the slot, which is what *out is set to.
Neon_Object_Get_String(obj, ok, v) ==
  /\ ~crashed
  /\ Usable(obj)
  /\ NextHandle <= MaxHandles
  /\ v \in 1..heap
  /\ LET slot == NextHandle
         entered == Append(hstack, [id |-> slot, ref |-> Hole])
         scope == InnerScope("escapable", slot, entered)
         withKey == IF ok >= 1 THEN Temp(entered, 1, -1) ELSE entered
         withResult == IF ok = 2 THEN Temp(withKey, 2, v) ELSE withKey
         escaped == IF ok = 2 THEN EscapeInto(withResult, slot, v) ELSE withResult
     IN /\ ReturnFrom(scope, escaped)
        /\ handleInfo' = Append(handleInfo, [scope |-> Top.uid, ref |-> Hole])
        /\ escapes' = IF ok = 2
             THEN escapes \cup {[from |-> 0, out |-> slot, scope |-> scope.uid,
                                  parent |-> Top.uid, supplied |-> -1, ref |-> v]}
             ELSE escapes
        /\ lastOp' = OpRet("get_string", obj, IF ok = 2 THEN slot ELSE 0,
                           IF ok = 2 THEN "true" ELSE "false", ok = 2)
  /\ UNCHANGED <<nscopes, heap, perVars, taskVars, crashed>>
  /\ UNCHANGED clsVars

MemNext ==
  \/ Neon_Object_New
  \/ Neon_Scope_Enter
  \/ Neon_Scope_Exit
  \/ Neon_Scope_Enter_Escapable
  \/ Neon_Scope_Exit_Escapable
  \/ Neon_Scope_Nested_Call
  \/ Neon_Scope_Nested_Return
  \/ \E parent_scope \in 0..MaxScopes : Neon_Scope_Chained_Call(parent_scope)
  \/ Neon_Scope_Chained_Return
  \/ \E i \in 1..(MaxScopes + 1), h \in 1..MaxHandles : Neon_Scope_Escape(i, h)
  \/ \E obj \in 1..MaxHandles, ok \in 0..2, v \in 1..MaxObjects : Neon_Object_Get_String(obj, ok, v)

Next == MemNext

Spec == Init /\ [][Next]_vars

\* -------------------------------------------------- persistent handles
\* PersistentBase::Reset(): an empty slot is left alone; otherwise the global cell is
\* disposed and val_ is cleared.
DisposeGlobal(cells, g) == [cells EXCEPT ![g].disposed = @ + 1]
ResetLeaksOld(cells, v) == cells
ResetEmpty(cells, v) == IF v = 0 THEN cells ELSE DisposeGlobal(cells, v)

\* ::new (out) v8::Persistent<v8::Value>(): an empty slot in the caller's memory.
Neon_Mem_NewPersistent(p) ==
  /\ ~crashed
  /\ pstate[p] # "live"
  /\ pstate' = [pstate EXCEPT ![p] = "live"]
  /\ pval' = [pval EXCEPT ![p] = 0]
  /\ lastReset' = [lastReset EXCEPT ![p] = 0]
  /\ lastOp' = Op("new_persistent", p, 0)
  /\ UNCHANGED <<memVars, globals, taskVars, crashed>>
  /\ UNCHANGED clsVars

\* p->Reset(isolate, h): the old referent is released, then a new global cell is
\* made for the value h refers to; the cell holds the value itself.
Stored(v) == v

Neon_Mem_ResetPersistent(p, h) ==
  /\ ~crashed
  /\ pstate[p] = "live"
  /\ Usable(h)
  /\ Len(globals) < MaxGlobals
  /\ globals' = Append(ResetEmpty(globals, pval[p]), [ref |-> Stored(Ref(h)), disposed |-> 0])
  /\ pval' = [pval EXCEPT ![p] = Len(globals) + 1]
  /\ lastReset' = [lastReset EXCEPT ![p] = Ref(h)]
  /\ lastOp' = Op("reset_persistent", p, 0)
  /\ UNCHANGED <<memVars, pstate, taskVars, crashed>>
  /\ UNCHANGED clsVars

\* *out = Nan::New(*p): a new handle in the current scope for the value of p's
\* global cell; an empty persistent gives an empty handle (no cell).
ReadOther(p) == IF globals = <<>> THEN Hole ELSE globals[Len(globals)].ref
ReadValue(p) == IF pval[p] = 0 THEN Hole ELSE globals[pval[p]].ref

Neon_Mem_ReadPersistent(p) ==
  /\ ~crashed
  /\ pstate[p] = "live"
  /\ IF pval[p] = 0
       THEN /\ lastOp' = Op("read_persistent", p, 0)
            /\ UNCHANGED <<hstack, handleInfo>>
       ELSE /\ NextHandle <= MaxHandles
            /\ CreateHandle(ReadValue(p))
            /\ lastOp' = Op("read_persistent", p, NextHandle)
  /\ UNCHANGED <<scopes, exited, escapes, nscopes, heap, perVars, taskVars, crashed>>
  /\ UNCHANGED clsVars

\* p->Persistent::~Persistent(): the traits do not reset in the destructor, and the
\* object's lifetime ends. The slot's bytes are indeterminate from here on: the store
\* that cleared val_ just before is a store to an object about to die, which a build
\* may keep (val_ is 0) or drop (val_ still names the disposed cell).
AfterDestructor(v) == {0, v}

\* Disposing a cell that is already disposed is a double free: it corrupts the
\* host's list of free global cells. The model stops the process there.
DoubleFree(v) == v # 0 /\ globals[v].disposed > 0

\* p->Reset(); p->Persistent::~Persistent(). A second call runs Reset() on what the
\* first one left in the slot.
Neon_Mem_DropPersistent(p) ==
  /\ ~crashed
  /\ pstate[p] \in {"live", "dead"}
  /\ globals' = ResetEmpty(globals, pval[p])
  /\ crashed' = DoubleFree(pval[p])
  /\ \E v \in AfterDestructor(pval[p]) : pval' = [pval EXCEPT ![p] = v]
  /\ pstate' = [pstate EXCEPT ![p] = "dead"]
  /\ lastReset' = [lastReset EXCEPT ![p] = 0]
  /\ lastOp' = Op("drop_persistent", p, 0)
  /\ UNCHANGED <<memVars, taskVars>>
  /\ UNCHANGED clsVars

PersistNext ==
  \/ Neon_Object_New
  \/ \E p \in Persistents : Neon_Mem_NewPersistent(p)
  \/ \E p \in Persistents, h \in 1..MaxHandles : Neon_Mem_ResetPersistent(p, h)
  \/ \E p \in Persistents : Neon_Mem_ReadPersistent(p)
  \/ \E p \in Persistents : Neon_Mem_DropPersistent(p)

PersistSpec == Init /\ [][PersistNext]_vars

\* ------------------------------------------- persistent-handle variants
\* A state reached from Init by Neon_Object_New, Neon_Mem_NewPersistent(1) and
\* Neon_Mem_ResetPersistent(1, 1): host object 1 is rooted in persistent 1.
RootedInit ==
  /\ hstack = <<[id |-> 1, ref |-> 1]>>
  /\ scopes = <<[uid |-> 0, kind |-> "plain", via |-> "host", prev_next |-> 0, escape_slot |-> 0,
              parent_scope |-> -1]>>
  /\ handleInfo = <<[scope |-> 0, ref |-> 1]>>
  /\ exited = {}
  /\ escapes = {}
  /\ nscopes = 0
  /\ heap = 1
  /\ pstate = [p \in Persistents |-> IF p = CallbackP THEN "live" ELSE "unborn"]
  /\ pval = [p \in Persistents |-> IF p = CallbackP THEN 1 ELSE 0]
  /\ globals = <<[ref |-> 1, disposed |-> 0]>>
  /\ lastReset = [p \in Persistents |-> IF p = CallbackP THEN 1 ELSE 0]
  /\ crashed = FALSE
  /\ lastOp = Op("reset_persistent", CallbackP, 0)
  /\ tasks = [t \in Tasks |-> NoTask]
  /\ doneQueue = <<>>
  /\ hostPc = <<"idle">>
  /\ loopRefs = 0
  /\ hostAlive = TRUE
  /\ received = <<>>
  /\ hostExceptions = <<>>
  /\ ClassInit

\* p->Reset(isolate, value) on an out-parameter.
StoreInto(p, v) ==
  /\ globals' = Append(ResetEmpty(globals, pval[p]), [ref |-> Stored(v), disposed |-> 0])
  /\ pval' = [pval EXCEPT ![p] = Len(globals) + 1]
  /\ lastReset' = [lastReset EXCEPT ![p] = v]

\* A persistent that can be read: constructed and holding a referent.
Holds(p) == pstate[p] = "live" /\ pval[p] # 0

\* Neon_Object_Get_StringThin: a plain scope around the key, the handle read from
\* p_obj and the result. ok = 0: the key cannot be made; 1: the property read fails;
\* 2: p_out is reset to the result v. The out field keeps what p_out held before.
Neon_Object_Get_StringThin(p_out, p_obj, ok, v) ==
  /\ ~crashed
  /\ pstate[p_out] = "live" /\ Holds(p_obj)
  /\ v \in 1..heap
  /\ LET scope == InnerScope("plain", 0, hstack)
         withKey == IF ok >= 1 THEN Temp(hstack, 0, -1) ELSE hstack
         withObj == IF ok >= 1 THEN Temp(withKey, 1, ReadValue(p_obj)) ELSE withKey
         withResult == IF ok = 2 THEN Temp(withObj, 2, v) ELSE withObj
     IN ReturnFrom(scope, withResult)
  /\ IF ok = 2
       THEN Len(globals) < MaxGlobals /\ StoreInto(p_out, v)
       ELSE UNCHANGED <<pval, globals, lastReset>>
  /\ lastOp' = OpRet("get_string_thin", p_out, pval[p_out],
                     IF ok = 2 THEN "true" ELSE "false", ok = 2)
  /\ UNCHANGED <<handleInfo, escapes, nscopes, heap, pstate, taskVars, crashed, clsVars>>

\* Neon_Object_GetThin: a plain scope around the handles read from p_obj and p_key
\* and the result; on success p_out is reset to the result v.
Neon_Object_GetThin(p_out, p_obj, p_key, ok, v) ==
  /\ ~crashed
  /\ pstate[p_out] = "live" /\ Holds(p_obj) /\ Holds(p_key)
  /\ v \in 1..heap
  /\ LET scope == InnerScope("plain", 0, hstack)
         withObj == Temp(hstack, 0, ReadValue(p_obj))
         withKey == Temp(withObj, 1, ReadValue(p_key))
         withResult == IF ok THEN Temp(withKey, 2, v) ELSE withKey
     IN ReturnFrom(scope, withResult)
  /\ IF ok
       THEN Len(globals) < MaxGlobals /\ StoreInto(p_out, v)
       ELSE UNCHANGED <<pval, globals, lastReset>>
  /\ lastOp' = OpRet("get_thin", p_out, pval[p_out], IF ok THEN "true" ELSE "false", ok)
  /\ UNCHANGED <<handleInfo, escapes, nscopes, heap, pstate, taskVars, crashed, clsVars>>

\* What the caller reads as the return value of a bool function whose execution
\* reaches the closing brace without a return statement: whatever the return
\* register holds.
NoReturnStatement == {"true", "false"}

\* Neon_Object_GetOwnPropertyNames: a plain scope around the handle read from obj and
\* the array of names. On failure it returns false; on success out is reset to the
\* array, a new host object, and the function ends without a return statement.
Neon_Object_GetOwnPropertyNames(out, obj, ok, ret) ==
  /\ ~crashed
  /\ pstate[out] = "live" /\ Holds(obj)
  /\ LET scope == InnerScope("plain", 0, hstack)
         withObj == Temp(hstack, 0, ReadValue(obj))
         withArr == IF ok THEN Temp(withObj, 1, heap + 1) ELSE withObj
     IN ReturnFrom(scope, withArr)
  /\ IF ok
       THEN /\ heap < MaxObjects /\ Len(globals) < MaxGlobals
            /\ heap' = heap + 1
            /\ StoreInto(out, heap + 1)
            /\ ret \in NoReturnStatement
       ELSE /\ ret = "false"
            /\ UNCHANGED <<heap, pval, globals, lastReset>>
  /\ lastOp' = OpRet("get_own_property_names", out, pval[out], ret, ok)
  /\ UNCHANGED <<handleInfo, escapes, nscopes, pstate, taskVars, crashed, clsVars>>

\* Neon_Object_Set_Index: maybe.IsJust() && (*out = maybe.FromJust(), true): *out is
\* written, and true returned, exactly when the host's Set did not fail.
Neon_Object_Set_Index(object, ok) ==
  /\ ~crashed
  /\ Usable(object)
  /\ lastOp' = OpRet("set_index", object, 0, IF ok THEN "true" ELSE "false", ok)
  /\ UNCHANGED <<memVars, perVars, taskVars, crashed, clsVars>>

\* The operations that open, close or run inside scopes, with a persistent-handle
\* variant among them.
ScopeNext ==
  \/ Neon_Scope_Enter
  \/ Neon_Scope_Exit
  \/ Neon_Scope_Enter_Escapable
  \/ Neon_Scope_Exit_Escapable
  \/ Neon_Scope_Nested_Call
  \/ Neon_Scope_Nested_Return
  \/ \E parent_scope \in 0..MaxScopes : Neon_Scope_Chained_Call(parent_scope)
  \/ Neon_Scope_Chained_Return
  \/ \E obj \in 1..MaxHandles, ok \in 0..2, v \in 1..MaxObjects : Neon_Object_Get_String(obj, ok, v)
  \/ \E p_out, p_obj \in Persistents, ok \in 0..2, v \in 1..MaxObjects :
       Neon_Object_Get_StringThin(p_out, p_obj, ok, v)

ScopeSpec == RootedInit /\ [][ScopeNext]_vars

\* The conversion operations that return a success flag.
ConvNext ==
  \/ \E p \in Persistents : Neon_Mem_NewPersistent(p)
  \/ \E obj \in 1..MaxHandles, ok \in 0..2, v \in 1..MaxObjects : Neon_Object_Get_String(obj, ok, v)
  \/ \E p_out, p_obj \in Persistents, ok \in 0..2, v \in 1..MaxObjects :
       Neon_Object_Get_StringThin(p_out, p_obj, ok, v)
  \/ \E p_out, p_obj, p_key \in Persistents, ok \in BOOLEAN, v \in 1..MaxObjects :
       Neon_Object_GetThin(p_out, p_obj, p_key, ok, v)
  \/ \E out, obj \in Persistents, ok \in BOOLEAN, ret \in NoReturnStatement :
       Neon_Object_GetOwnPropertyNames(out, obj, ok, ret)
  \/ \E object \in 1..MaxHandles, ok \in BOOLEAN : Neon_Object_Set_Index(object, ok)

ConvSpec == RootedInit /\ [][ConvNext]_vars

\* ---------------------------------------------------------- task bridge
\* The stations of a task, in order.
Stations == <<"Created", "Queued", "Executing", "Completing", "Finished">>

\* The state in which tasks are scheduled: the host has made the shared target
\* callback (host object 1) and rooted it in CallbackP (Neon_Object_New,
\* Neon_Mem_NewPersistent and Neon_Mem_ResetPersistent from Init).
TaskInit == RootedInit

OpOn(thread, op, arg, out) == [Op(op, arg, out) EXCEPT !.thread = thread]


Move(ts, t, station) ==
  [ts EXCEPT ![t].state = station, ![t].trace = Append(@, station)]

\* neon::queue_task: the task enters the queue of the worker pool, and the request
\* counts as active on the host's event loop until its completion has run.
queue_task(ts, t) == Move(ts, t, "Queued")

\* Neon_Task_Schedule: the isolate is the one current on the calling thread, which is
\* therefore the host thread; one Task is made and queued once.
Neon_Task_Schedule_SkipPerform(t, panics) ==
  /\ ~crashed /\ hostAlive /\ hostPc = <<"idle">>
  /\ tasks[t].state = "none"
  /\ \A u \in 1..(t - 1) : tasks[u].state # "none"
  /\ tasks' = Move([tasks EXCEPT ![t] = NewTask(t - 1, panics, CallbackP)], t, "Completing")
  /\ doneQueue' = Append(doneQueue, t)
  /\ loopRefs' = loopRefs + 1
  /\ lastOp' = Op("schedule", t, 0)
  /\ UNCHANGED <<memVars, perVars, hostPc, hostAlive, received, hostExceptions, crashed>>
  /\ UNCHANGED clsVars

Neon_Task_Schedule_NotQueued(t, panics) ==
  /\ ~crashed /\ hostAlive /\ hostPc = <<"idle">>
  /\ tasks[t].state = "none"
  /\ \A u \in 1..(t - 1) : tasks[u].state # "none"
  /\ tasks' = [tasks EXCEPT ![t] = NewTask(t - 1, panics, CallbackP)]
  /\ lastOp' = Op("schedule", t, 0)
  /\ UNCHANGED <<memVars, perVars, doneQueue, hostPc, loopRefs, hostAlive, received,
                 hostExceptions, crashed>>
  /\ UNCHANGED clsVars

Neon_Task_Schedule_QueuedTwice(t, panics) ==
  /\ ~crashed /\ hostAlive /\ hostPc = <<"idle">>
  /\ tasks[t].state = "none"
  /\ \A u \in 1..(t - 1) : tasks[u].state # "none"
  /\ tasks' = queue_task(queue_task([tasks EXCEPT ![t] = NewTask(t - 1, panics, CallbackP)], t), t)
  /\ loopRefs' = loopRefs + 2
  /\ lastOp' = Op("schedule", t, 0)
  /\ UNCHANGED <<memVars, perVars, doneQueue, hostPc, hostAlive, received,
                 hostExceptions, crashed>>
  /\ UNCHANGED clsVars

Neon_Task_Schedule(t, panics) ==
  /\ ~crashed /\ hostAlive /\ hostPc = <<"idle">>
  /\ tasks[t].state = "none"
  /\ \A u \in 1..(t - 1) : tasks[u].state # "none"
  /\ tasks' = queue_task([tasks EXCEPT ![t] = NewTask(t - 1, panics, CallbackP)], t)
  /\ loopRefs' = loopRefs + 1
  /\ lastOp' = Op("schedule", t, 0)
  /\ UNCHANGED <<memVars, perVars, doneQueue, hostPc, hostAlive, received,
                 hostExceptions, crashed>>
  /\ UNCHANGED clsVars

\* The callback target of a task can be used: its persistent has not been dropped
\* and holds a referent.
TargetValidAlways(p) == TRUE
TargetValid(p) == pstate[p] = "live" /\ pval[p] # 0

\* perform: a native computation on the native input alone.
perform(input) == input * input

\* A worker of the pool takes a queued task and starts its perform.
Execute_Begin(w, t) ==
  /\ ~crashed
  /\ tasks[t].state = "Queued"
  /\ \A u \in Tasks : ~(tasks[u].state = "Executing" /\ tasks[u].worker = w)
  /\ tasks' = [Move(tasks, t, "Executing") EXCEPT ![t].worker = w]
  /\ lastOp' = OpOn(w, "perform", t, 0)
  /\ UNCHANGED <<memVars, perVars, doneQueue, hostPc, loopRefs, hostAlive, received,
                 hostExceptions, crashed>>
  /\ UNCHANGED clsVars

\* perform finishes: the task holds its result and is handed back to the host thread,
\* behind the tasks that finished before it.
Execute_End(w, t) ==
  /\ ~crashed
  /\ tasks[t].state = "Executing" /\ tasks[t].worker = w
  /\ tasks' = [Move(tasks, t, "Completing") EXCEPT
                 ![t].result = perform(tasks[t].input),
                 ![t].performed = TRUE,
                 ![t].finishedAt = 1 + Cardinality({u \in Tasks : tasks[u].performed}),
                 ![t].invalidated = (pstate[tasks[t].callback] # "live")]
  /\ doneQueue' = Append(doneQueue, t)
  /\ lastOp' = OpOn(w, "perform", t, 0)
  /\ UNCHANGED <<memVars, perVars, hostPc, loopRefs, hostAlive, received,
                 hostExceptions, crashed>>
  /\ UNCHANGED clsVars

\* The thread on which the completion of a task runs.
CompletingThreadIsWorker(t) == tasks[t].worker
CompletingThread(t) == Host

\* The finished task the host thread completes next: the one that finished first.
NextCompletionNewest(q) == q[Len(q)]
NextCompletion(q) == Head(q)

\* The host thread takes the oldest finished task and opens a scope for its complete.
Complete_Enter(t) ==
  /\ ~crashed /\ hostAlive /\ hostPc = <<"idle">>
  /\ doneQueue # <<>> /\ NextCompletion(doneQueue) = t
  /\ doneQueue' = SelectSeq(doneQueue, LAMBDA u : u # t)
  /\ OpenScope("plain", "complete", 0, hstack, -1)
  /\ hostPc' = <<"complete", t>>
  /\ lastOp' = OpOn(CompletingThread(t), "scope_enter", nscopes + 1, 0)
  /\ UNCHANGED <<hstack, handleInfo, exited, escapes, heap, perVars, tasks, loopRefs,
                 hostAlive, received, hostExceptions, crashed>>
  /\ UNCHANGED clsVars

\* What the host/native boundary makes of a panic in native code running on the host
\* thread: it is caught and becomes one host exception.
BoundaryUnwinds(t) == "unwind"
Boundary(t) == "exception"

NumberRef(n) == 0 - (n + 1)

\* complete runs: it makes a handle for the native result, then the target callback
\* is read from its persistent and invoked with it. A panic in complete is turned into
\* a host exception at the boundary; an invalidated target is not invoked.
Complete_Run(t) ==
  /\ ~crashed /\ hostPc = <<"complete", t>>
  /\ hostPc' = <<"release", t>>
  /\ tasks' = [tasks EXCEPT ![t].completions = @ + 1,
                            ![t].completeThread = CompletingThread(t),
                            ![t].completedAt = 1 + Cardinality({u \in Tasks : tasks[u].completions > 0}),
                            ![t].completeScope = Top.uid]
  /\ lastOp' = OpOn(CompletingThread(t), "complete", t, 0)
  /\ IF tasks[t].panics
       THEN /\ IF Boundary(t) = "exception"
                 THEN /\ hostExceptions' = Append(hostExceptions,
                                                  [task |-> t, kind |-> "Error", during |-> hostPc[1]])
                      /\ UNCHANGED crashed
                 ELSE /\ crashed' = TRUE
                      /\ UNCHANGED hostExceptions
            /\ UNCHANGED <<hstack, handleInfo, received>>
       ELSE /\ UNCHANGED <<hostExceptions, crashed>>
            /\ IF TargetValid(tasks[t].callback)
                 THEN /\ hstack' = hstack \o <<[id |-> NextHandle, ref |-> NumberRef(tasks[t].result)],
                                               [id |-> NextHandle + 1, ref |-> ReadValue(tasks[t].callback)]>>
                      /\ handleInfo' = handleInfo \o <<[scope |-> Top.uid, ref |-> NumberRef(tasks[t].result)],
                                                       [scope |-> Top.uid, ref |-> ReadValue(tasks[t].callback)]>>
                      /\ received' = Append(received, [task |-> t, value |-> tasks[t].result,
                                                       thread |-> CompletingThread(t)])
                 ELSE /\ CreateHandle(NumberRef(tasks[t].result))
                      /\ UNCHANGED received
  /\ UNCHANGED <<scopes, exited, escapes, nscopes, heap, perVars, doneQueue, loopRefs, hostAlive>>
  /\ UNCHANGED clsVars

\* The task is released, the scope of its complete closes and the request stops
\* counting as active on the event loop.
Complete_Exit(t) ==
  /\ ~crashed /\ hostPc = <<"release", t>>
  /\ Top.via = "complete"
  /\ tasks' = [Move(tasks, t, "Finished") EXCEPT ![t].released = @ + 1]
  /\ hstack' = CloseScope(hstack)
  /\ scopes' = PopScope(scopes)
  /\ exited' = exited \cup {Top.uid}
  /\ loopRefs' = loopRefs - 1
  /\ hostPc' = <<"idle">>
  /\ lastOp' = OpOn(CompletingThread(t), "scope_exit", Top.uid, 0)
  /\ UNCHANGED <<handleInfo, escapes, nscopes, heap, perVars, doneQueue, hostAlive,
                 received, hostExceptions, crashed>>
  /\ UNCHANGED clsVars

\* The owner of the target callback drops its persistent (once), between two events
\* of the host thread.
InvalidateTarget ==
  /\ hostAlive /\ hostPc = <<"idle">>
  /\ pstate[CallbackP] = "live"
  /\ Neon_Mem_DropPersistent(CallbackP)

\* The event loop ends when nothing keeps it alive.
HostExit ==
  /\ ~crashed /\ hostAlive /\ hostPc = <<"idle">>
  /\ loopRefs = 0
  /\ hostAlive' = FALSE
  /\ lastOp' = Op("exit", 0, 0)
  /\ UNCHANGED <<memVars, perVars, tasks, doneQueue, hostPc, loopRefs, received,
                 hostExceptions, crashed>>
  /\ UNCHANGED clsVars

TaskNext ==
  \/ \E t \in Tasks, panics \in BOOLEAN : Neon_Task_Schedule(t, panics)
  \/ \E w \in Workers, t \in Tasks : Execute_Begin(w, t)
  \/ \E w \in Workers, t \in Tasks : Execute_End(w, t)
  \/ \E t \in Tasks : Complete_Enter(t)
  \/ \E t \in Tasks : Complete_Run(t)
  \/ \E t \in Tasks : Complete_Exit(t)
  \/ InvalidateTarget
  \/ HostExit

TaskSpec == TaskInit /\ [][TaskNext]_vars

\* The host thread runs its event loop: a completion that can take its next step
\* does take it.
HostRuns == \E t \in Tasks : Complete_Enter(t) \/ Complete_Run(t) \/ Complete_Exit(t)
FairTaskSpec == TaskSpec /\ WF_vars(HostRuns)

\* ------------------------------------------------------- class registry
\* The Locals these functions create in their caller's scope (the template, the
\* name string, the constructor function) are handles like any other and are not
\* followed here.

\* v8::FunctionTemplate::New when the host cannot allocate: the host does not return
\* an empty handle, it ends the process (fatal out-of-memory).
TemplateAllocationFails == "abort"

\* Neon_Class_CreateBase: the metadata of one class, holding its callbacks and the
\* constructor template it makes. construct and call say whether the class supplied
\* that behaviour or left it to the default. The metadata pointer is returned
\* whatever happened: there is no failure return.
Neon_Class_CreateBase(construct, call, ok) ==
  /\ ~crashed /\ isoAlive
  /\ Len(classes) < MaxClasses
  /\ IF ok
       THEN /\ classes' = Append(classes, [construct |-> construct, call |-> call,
                                           name |-> "", className |-> "",
                                           methods |-> {}, function |-> FALSE])
            /\ lastOp' = OpRet("create_base", 0, Len(classes) + 1, "void", TRUE)
            /\ UNCHANGED crashed
       ELSE /\ crashed' = (TemplateAllocationFails = "abort")
            /\ lastOp' = OpRet("create_base", 0, 0, "void", FALSE)
            /\ UNCHANGED classes
  /\ UNCHANGED <<memVars, perVars, taskVars, lastCall, holders, isoSlot, atExit, isoAlive>>

\* Neon_Class_SetName: false, and nothing changed, when the name cannot be made a
\* host string; otherwise the template's class name and the metadata's name are set.
\* The out field keeps the name the class had before.
Neon_Class_SetName(c, name, ok) ==
  /\ ~crashed /\ isoAlive
  /\ c \in 1..Len(classes)
  /\ classes' = IF ok THEN [classes EXCEPT ![c].className = name, ![c].name = name]
                      ELSE classes
  /\ lastOp' = OpRet("set_name", c, classes[c].name, IF ok THEN "true" ELSE "false", ok)
  /\ UNCHANGED <<memVars, perVars, taskVars, lastCall, holders, isoSlot, atExit, isoAlive, crashed>>

\* Neon_Class_AddMethod: a scope of its own around the key; false, and the prototype
\* unchanged, when the key cannot be made a host string; otherwise the method is set
\* on the prototype template. The out field keeps the methods the class had before.
Neon_Class_AddMethod(c, name, ok) ==
  /\ ~crashed /\ isoAlive
  /\ c \in 1..Len(classes)
  /\ LET scope == InnerScope("plain", 0, hstack)
         withKey == IF ok THEN Temp(hstack, 0, -1) ELSE hstack
     IN ReturnFrom(scope, withKey)
  /\ classes' = IF ok THEN [classes EXCEPT ![c].methods = @ \cup {name}] ELSE classes
  /\ lastOp' = OpRet("add_method", c, classes[c].methods, IF ok THEN "true" ELSE "false", ok)
  /\ UNCHANGED <<handleInfo, escapes, nscopes, heap, perVars, taskVars, lastCall, holders,
                 isoSlot, atExit, isoAlive, crashed>>

\* Neon_Class_MetadataToConstructor: ft->GetFunction() as a MaybeLocal; *out is
\* written, and true returned, exactly when the host made the function.
Neon_Class_MetadataToConstructor(c, ok) ==
  /\ ~crashed /\ isoAlive
  /\ c \in 1..Len(classes)
  /\ classes' = IF ok THEN [classes EXCEPT ![c].function = TRUE] ELSE classes
  /\ lastOp' = OpRet("metadata_to_constructor", c, classes[c].function,
                     IF ok THEN "true" ELSE "false", ok)
  /\ UNCHANGED <<memVars, perVars, taskVars, lastCall, holders, isoSlot, atExit, isoAlive, crashed>>

\* Neon_Class_ThrowCallError: a TypeError with the class's call-error text, which
\* unless the class set its own is "constructor called without new.".
Neon_Class_ThrowCallError(c) ==
  [kind |-> "TypeError", error |-> "call", text |-> "constructor called without new.", class |-> c]

\* metadata->construct(info): allocate, then the class's construct behaviour or the
\* default one, which constructs nothing more. Nothing is thrown.
MetadataConstruct(c) == <<>>

\* metadata->call(info): the class's call behaviour, or the default one, which
\* throws the call-error: the class was called without new and construction was
\* required.
MetadataCall(c) == IF classes[c].call THEN <<>> ELSE <<Neon_Class_ThrowCallError(c)>>

\* if (info.IsConstructCall()) metadata->construct(info); else metadata->call(info);
DispatchMissingElse(isConstruct) == IF isConstruct THEN <<"construct", "call">> ELSE <<"call">>
DispatchSwapped(isConstruct) == IF isConstruct THEN <<"call">> ELSE <<"construct">>
Dispatch(isConstruct) == IF isConstruct THEN <<"construct">> ELSE <<"call">>

RECURSIVE Thrown(_, _)
Thrown(c, ran) ==
  IF ran = <<>> THEN <<>>
  ELSE (IF Head(ran) = "construct" THEN MetadataConstruct(c) ELSE MetadataCall(c))
       \o Thrown(c, Tail(ran))

\* Neon_Class_ConstructBaseCallback: the host invokes the constructor function of
\* class c, with new (isConstruct) or without; a scope of its own is open around
\* the dispatch.
Neon_Class_ConstructBaseCallback(c, isConstruct) ==
  /\ ~crashed /\ isoAlive
  /\ c \in 1..Len(classes)
  /\ classes[c].function
  /\ ReturnFrom(InnerScope("plain", 0, hstack), hstack)
  /\ lastCall' = [class |-> c, isConstruct |-> isConstruct, ran |-> Dispatch(isConstruct),
                  thrown |-> Thrown(c, Dispatch(isConstruct))]
  /\ lastOp' = Op("invoke", c, 0)
  /\ UNCHANGED <<handleInfo, escapes, nscopes, heap, perVars, taskVars, classes, holders,
                 isoSlot, atExit, isoAlive, crashed>>

\* Neon_Class_SetClassMap: a new holder for the map (a map the caller has just
\* made) goes into the isolate's slot and is registered for cleanup at exit.
Neon_Class_SetClassMapDropsOld ==
  /\ ~crashed /\ isoAlive
  /\ Len(holders) < MaxMaps
  /\ holders' = Append(IF isoSlot = 0 THEN holders
                       ELSE [holders EXCEPT ![isoSlot].dropped = @ + 1],
                       [map |-> Len(holders) + 1, dropped |-> 0])
  /\ isoSlot' = Len(holders) + 1
  /\ atExit' = Append(atExit, Len(holders) + 1)
  /\ lastOp' = Op("set_class_map", Len(holders) + 1, 0)
  /\ UNCHANGED <<memVars, perVars, taskVars, classes, lastCall, isoAlive, crashed>>

Neon_Class_SetClassMap ==
  /\ ~crashed /\ isoAlive
  /\ Len(holders) < MaxMaps
  /\ holders' = Append(holders, [map |-> Len(holders) + 1, dropped |-> 0])
  /\ isoSlot' = Len(holders) + 1
  /\ atExit' = Append(atExit, Len(holders) + 1)
  /\ lastOp' = Op("set_class_map", Len(holders) + 1, 0)
  /\ UNCHANGED <<memVars, perVars, taskVars, classes, lastCall, isoAlive, crashed>>

\* Neon_Class_GetClassMap: nullptr while the slot holds no holder, else its map.
Neon_Class_GetClassMap ==
  /\ ~crashed /\ isoAlive
  /\ lastOp' = Op("get_class_map", 0, IF isoSlot = 0 THEN 0 ELSE holders[isoSlot].map)
  /\ UNCHANGED <<memVars, perVars, taskVars, clsVars, crashed>>

\* delete holder: the holder's destructor hands the map to its drop callback.
DeleteHolder(hs, h) == [hs EXCEPT ![h].dropped = @ + 1]

\* cleanup_class_map(arg), for each registration in turn.
RECURSIVE cleanup_class_map(_, _)
cleanup_class_map(hs, hooks) ==
  IF hooks = <<>> THEN hs
  ELSE cleanup_class_map(DeleteHolder(hs, Head(hooks)), Tail(hooks))

\* The host runtime instance shuts down: the functions registered with node::AtExit
\* run.
Shutdown ==
  /\ ~crashed /\ isoAlive
  /\ isoAlive' = FALSE
  /\ holders' = cleanup_class_map(holders, atExit)
  /\ atExit' = <<>>
  /\ lastOp' = Op("shutdown", 0, 0)
  /\ UNCHANGED <<memVars, perVars, taskVars, classes, lastCall, isoSlot, crashed>>

ClassNext ==
  \/ \E construct, call, ok \in BOOLEAN : Neon_Class_CreateBase(construct, call, ok)
  \/ \E c \in 1..MaxClasses, name \in Names, ok \in BOOLEAN : Neon_Class_SetName(c, name, ok)
  \/ \E c \in 1..MaxClasses, name \in Names, ok \in BOOLEAN : Neon_Class_AddMethod(c, name, ok)
  \/ \E c \in 1..MaxClasses, ok \in BOOLEAN : Neon_Class_MetadataToConstructor(c, ok)
  \/ \E c \in 1..MaxClasses, isConstruct \in BOOLEAN : Neon_Class_ConstructBaseCallback(c, isConstruct)
  \/ Neon_Class_SetClassMap
  \/ Neon_Class_GetClassMap
  \/ Shutdown

ClassSpec == Init /\ [][ClassNext]_vars

\* ------------------------------------------------------------- claims
\* C2: in every state, a handle that was allocated inside a scope which has since
\* exited is not valid: its cell is no longer on the handle stack. This holds of the
\* handle passed to Escape as well; what survives is the escape slot, a cell of the
\* parent's region.
C2_NoHandleValidAfterExit ==
  \A h \in 1..Len(handleInfo) : handleInfo[h].scope \in exited => ~Valid(h)

\* A scope has exited with a handle allocated in it, while an older handle is still valid.
C2_Witness ==
  \E h \in 1..Len(handleInfo), k \in 1..Len(handleInfo) :
    /\ handleInfo[h].scope \in exited
    /\ handleInfo[k].scope \notin exited
    /\ Valid(k)

\* C3: right after Neon_Mem_ReadPersistent(p), the handle it returned refers to the
\* very host value given to the last Neon_Mem_ResetPersistent(p, .), whatever
\* happened to other persistents in between and however many reads came before; a
\* persistent never reset gives an empty handle.
C3_ReadYieldsResetValue ==
  lastOp.op = "read_persistent" =>
    IF lastReset[lastOp.arg] = 0
      THEN lastOp.out = 0
      ELSE Valid(lastOp.out) /\ Ref(lastOp.out) = lastReset[lastOp.arg]

\* A persistent that was reset to a value has just been read, while another
\* persistent holds a different value.
C3_Witness ==
  /\ lastOp.op = "read_persistent"
  /\ lastOp.out # 0
  /\ \E q \in Persistents : lastReset[q] \notin {0, lastReset[lastOp.arg]}

\* C4: dropping a persistent any number of times never faults and releases the
\* referent at most once; after a drop the persistent refers to nothing.
C4_DropIdempotent ==
  /\ ~crashed
  /\ \A g \in 1..Len(globals) : globals[g].disposed <= 1
  /\ \A p \in Persistents : pstate[p] = "dead" => pval[p] = 0

\* C5: the handle Escape returns refers to the value of the handle escaped, is valid
\* for as long as the parent of the escapable scope is open (so also after the
\* escapable scope has exited), and is invalid once the parent has exited.
C5_EscapedLivesWithParent ==
  \A e \in escapes :
    IF e.parent \in LiveScopes
      THEN Valid(e.out) /\ Ref(e.out) = e.ref
      ELSE ~Valid(e.out)

\* A handle was escaped by Neon_Scope_Escape, its escapable scope has exited and the
\* parent, itself a scope entered through the shim, is still open.
C5_Witness ==
  \E e \in escapes :
    /\ e.from # 0
    /\ e.scope \in exited
    /\ e.parent # 0
    /\ e.parent \in LiveScopes
    /\ Valid(e.out)

Deliveries(t) == Cardinality({i \in 1..Len(received) : received[i].task = t})
Scheduled == {t \in Tasks : tasks[t].state # "none"}
IsPrefix(s, r) == Len(s) <= Len(r) /\ \A i \in 1..Len(s) : s[i] = r[i]
Outstanding(t) == tasks[t].state \in {"Created", "Queued", "Executing", "Completing"}

C6_StationsInOrder ==
  \A t \in Scheduled :
    /\ IsPrefix(tasks[t].trace, Stations)
    /\ tasks[t].state = tasks[t].trace[Len(tasks[t].trace)]
    /\ tasks[t].state = "Executing" => tasks[t].worker \in Workers
    /\ tasks[t].completions = 1 => tasks[t].completeThread = Host
    /\ tasks[t].released = IF tasks[t].state = "Finished" THEN 1 ELSE 0

\* A task has been through all five stations while another is still executing.
C6_Witness ==
  \E t, u \in Tasks :
    /\ tasks[t].state = "Finished" /\ tasks[t].trace = Stations
    /\ tasks[u].state = "Executing"

\* C7 (state part): the event loop holds one active request per outstanding task, so
\* it is kept alive while a task is outstanding and is free to end when none is.
KeepAliveHeld ==
  /\ loopRefs = Cardinality({t \in Tasks : Outstanding(t)})
  /\ (\E t \in Tasks : Outstanding(t)) => hostAlive

C8_InvalidatedTargetSkipped ==
  \A t \in Scheduled :
    tasks[t].invalidated =>
      /\ Deliveries(t) = 0
      /\ tasks[t].completions <= 1 /\ tasks[t].released <= 1
      /\ tasks[t].state = "Finished" =>
           /\ tasks[t].completions = 1
           /\ tasks[t].completeThread = Host
           /\ tasks[t].released = 1

\* A task whose target was dropped while it was executing has finished.
C8_Witness ==
  \E t \in Tasks :
    /\ tasks[t].invalidated
    /\ tasks[t].state = "Finished"
    /\ tasks[t].completions = 1

ExceptionsOf(t) == {i \in 1..Len(hostExceptions) : hostExceptions[i].task = t}

\* C9: a panic in a completion running on the host thread becomes exactly one host
\* exception, an Error raised while the event loop runs the completion; nothing is
\* raised in the call that scheduled the task, for a task that does not panic, or
\* before the completion has run, and the process does not abort.
C9_PanicBecomesOneException ==
  /\ ~crashed
  /\ \A t \in Scheduled :
       /\ Cardinality(ExceptionsOf(t)) =
            IF tasks[t].panics /\ tasks[t].completions = 1 THEN 1 ELSE 0
       /\ \A i \in ExceptionsOf(t) :
            hostExceptions[i].kind = "Error" /\ hostExceptions[i].during = "complete"
  /\ lastOp.op = "schedule" => ExceptionsOf(lastOp.arg) = {}

\* A task whose complete panicked has finished and its exception has been raised.
C9_Witness ==
  \E t \in Tasks :
    /\ tasks[t].panics
    /\ tasks[t].state = "Finished"
    /\ Cardinality(ExceptionsOf(t)) = 1

HostOnlyOps == {"scope_enter", "scope_exit", "alloc_handle", "read_persistent",
                "drop_persistent", "complete"}

ThreadsRespected ==
  /\ lastOp.op \in HostOnlyOps => lastOp.thread = Host
  /\ lastOp.op = "perform" => lastOp.thread \in Workers
  /\ \A t \in Scheduled : tasks[t].completions > 0 => tasks[t].completeThread = Host
  /\ \A i \in 1..Len(received) : received[i].thread = Host
  /\ hostPc[1] \in {"complete", "release"} => Len(scopes) >= 2 /\ Top.via = "complete"
  /\ \A t \in Scheduled : tasks[t].completions > 0 =>
       /\ tasks[t].completeScope > 0
       /\ hostPc = <<"release", t>> => Top.uid = tasks[t].completeScope

C16_CompleteInFinishOrder ==
  \A a, b \in Scheduled :
    /\ tasks[a].finishedAt > 0
    /\ tasks[a].finishedAt < tasks[b].finishedAt
    /\ tasks[b].completedAt > 0
    => /\ tasks[a].completedAt > 0
       /\ tasks[a].completedAt < tasks[b].completedAt

\* The task scheduled second finished its perform first and was completed first,
\* while both had finished before either was completed.
C16_Witness ==
  \E a, b \in Tasks :
    /\ a > b
    /\ tasks[a].finishedAt = 1 /\ tasks[b].finishedAt = 2
    /\ tasks[a].completedAt = 1 /\ tasks[b].completedAt = 2
    /\ received # <<>> /\ received[1].task = a

\* C17: a step changes the scope stack only by pushing one scope on top (an entry:
\* Neon_Scope_Enter, Neon_Scope_Enter_Escapable, or the call of the callback of
\* Neon_Scope_Nested or Neon_Scope_Chained) or by popping the innermost one (the
\* matching exit or return). An operation with a scope of its own, succeeding or
\* failing, leaves the stack as it found it. When the callback of Neon_Scope_Nested
\* or Neon_Scope_Chained returns, every scope entered after it has exited.
C17_DepthBalanced ==
  [][(lastOp'.op = "scope_enter" =>
        /\ Len(scopes') = Len(scopes) + 1
        /\ SubSeq(scopes', 1, Len(scopes)) = scopes
        /\ scopes'[Len(scopes')].uid = lastOp'.arg)
     /\ (lastOp'.op = "scope_exit" =>
        /\ Len(scopes') = Len(scopes) - 1
        /\ scopes' = SubSeq(scopes, 1, Len(scopes) - 1)
        /\ lastOp'.arg = Top.uid
        /\ \A u \in (Top.uid + 1)..nscopes : u \in exited)
     /\ (lastOp'.op \notin {"scope_enter", "scope_exit"} => scopes' = scopes)
    ]_vars

\* A failing Neon_Object_Get_StringThin has just returned inside the callback of
\* Neon_Scope_Nested, in which a scope had been entered and exited before.
C17_Witness ==
  /\ lastOp.op = "get_string_thin"
  /\ lastOp.ret = "false"
  /\ Top.via = "nested"
  /\ \E u \in exited : u > Top.uid

C19_OneEscapePerRegion ==
  /\ \A e, f \in escapes : e.scope = f.scope => e = f
  /\ \A e \in escapes : Valid(e.out) => Ref(e.out) = e.ref
  /\ lastOp.op = "get_string" =>
       LET slot == Len(handleInfo)
           made == {e \in escapes : e.scope = 0 - slot}
       IN IF lastOp.ret = "true"
            THEN /\ Cardinality(made) = 1
                 /\ \A e \in made : e.out = lastOp.out /\ lastOp.out = slot
            ELSE /\ made = {}
                 /\ Ref(slot) = Hole

\* A second escape, of another value, has been attempted on a region that had
\* escaped one already.
C19_Witness ==
  /\ crashed
  /\ lastOp.op = "escape"
  /\ \E e \in escapes :
       /\ e.scope \in LiveScopes
       /\ Ref(e.out) = e.ref
       /\ Ref(lastOp.arg) # e.ref

FlagOps == {"get_string", "get_string_thin", "get_thin", "get_own_property_names", "set_index"}
ThinOps == {"get_string_thin", "get_thin", "get_own_property_names"}

\* C20: an operation with a success flag returns true exactly when it wrote its
\* out-parameter; for the persistent-handle variants, after true the out-parameter
\* holds a new referent and after false it holds what it held before.
C20_FlagTellsOutcome ==
  lastOp.op \in FlagOps =>
    /\ lastOp.ret = "true" <=> lastOp.wrote
    /\ lastOp.op \in ThinOps =>
         IF lastOp.ret = "true"
           THEN pval[lastOp.arg] = Len(globals) /\ pval[lastOp.arg] # lastOp.out
           ELSE pval[lastOp.arg] = lastOp.out

\* C11: whenever a class's constructor function has been invoked, exactly one of the
\* two behaviours has run: construct if the host reported a construct call, call if
\* it did not.
C11_ExactlyOneBehaviour ==
  lastCall.class # 0 =>
    /\ Len(lastCall.ran) = 1
    /\ lastCall.ran[1] = (IF lastCall.isConstruct THEN "construct" ELSE "call")

\* A class that supplied both behaviours has been invoked without new.
C11_Witness ==
  /\ lastOp.op = "invoke"
  /\ ~lastCall.isConstruct
  /\ classes[lastCall.class].construct /\ classes[lastCall.class].call
  /\ lastCall.ran = <<"call">>

InUse == {pval[p] : p \in {q \in Persistents : pstate[q] = "live" /\ pval[q] # 0}}

\* C13: after any sequence of resets, the global cell a persistent points at is its
\* own, is not released and holds the host value given to its most recent reset;
\* every other cell ever made, so every earlier referent, has been released.
C13_ResetReleasesPrevious ==
  /\ \A p \in Persistents : pstate[p] = "live" /\ pval[p] # 0 =>
       /\ globals[pval[p]].disposed = 0
       /\ globals[pval[p]].ref = lastReset[p]
       /\ \A q \in Persistents \ {p} : pstate[q] = "live" => pval[q] # pval[p]
  /\ \A g \in 1..Len(globals) : g \notin InUse => globals[g].disposed >= 1

\* A persistent that already held a referent has just been reset to another value,
\* no other persistent having ever been made.
C13_Witness ==
  /\ lastOp.op = "reset_persistent"
  /\ \A q \in Persistents \ {lastOp.arg} : pstate[q] = "unborn"
  /\ \E g \in 1..Len(globals) :
       /\ globals[g].disposed = 1
       /\ g # pval[lastOp.arg]
       /\ globals[g].ref # lastReset[lastOp.arg]
C15_FailureIsReported ==
  /\ ~crashed
  /\ lastOp.op = "create_base" => (lastOp.wrote <=> lastOp.out # 0)
  /\ lastOp.op \in {"set_name", "add_method", "metadata_to_constructor"} =>
       (lastOp.ret = "true" <=> lastOp.wrote)
  /\ lastOp.op = "set_name" /\ lastOp.ret = "false" =>
       /\ classes[lastOp.arg].name = lastOp.out
       /\ classes[lastOp.arg].className = lastOp.out
  /\ lastOp.op = "add_method" /\ lastOp.ret = "false" =>
       classes[lastOp.arg].methods = lastOp.out
====
